---- MODULE Spec2Model ----
(***************************************************************************)
(* Model of the two daemons of rpi-ups-pico:                               *)
(*   picod      (src/picod.c)     GPIO pin setup, pulse train, FSSD watch  *)
(*   pico-i2cd  (src/pico-i2cd.c) I2C register client and uinput key loop  *)
(* The two programmes are separate processes that share no state; each has *)
(* its own specification over its own variables: SpecWatchdog for picod,   *)
(* SpecInput for pico-i2cd with a log of the current poll cycle, SpecKeys  *)
(* for pico-i2cd with a log of one key's polls over several cycles.        *)
(* SpecEither runs either daemon alone, for statements about both;        *)
(* SpecDecode applies getFloat to every 16-bit word; SpecLive runs         *)
(* pico-i2cd fairly against key registers that latch a press.              *)
(***************************************************************************)
EXTENDS Integers, Sequences, FiniteSets, TLC

(***************************************************************************)
(* Bounds of the model (not programme constants).                          *)
(***************************************************************************)
\* number of watchdog loop iterations whose outcome is kept in whist
MaxIter == 5
\* number of polls of the watched key whose outcome is kept in khist
MaxPolls == 4

(***************************************************************************)
(* picod: constants                                                        *)
(***************************************************************************)
\* static const int maxRetries = 8;
maxRetries == 8

\* the period and the duration of main's pulse(22, 500000, 250000), in usec
HeartbeatPeriod == 500000

HeartbeatDuration == 250000

(***************************************************************************)
(* picod: variables                                                        *)
(***************************************************************************)
VARIABLES
  fssd,          \* main: char fssd (1 unless -n was given)
  initialPulse,  \* main: char initialPulse
  fssdWasHigh,   \* main: char fssdWasHigh
  wpc,           \* main's position: "setup22","setup27","daemon","loop","exit"
  exitCode,      \* main's return value once wpc = "exit"
  spc,           \* position inside setup(): "export" or "direction"
  retries,       \* setup: int retries
  setupRv,       \* setup: int rv, the result of the last export()/direction()
  attempts,      \* number of direction() calls made by the current setup()
  delays,        \* arguments of the usleep() calls made by the current setup()
  iter,          \* what the latest watchdog loop iteration did
  whist,         \* outcome of the first MaxIter watchdog loop iterations
  gpioWrite      \* the write() of the export() or direction() call of the
                 \* latest step: "full", "short" (short or failed), or "none"
                 \* if the step made no such call or the call made no write()

wvars == <<fssd, initialPulse, fssdWasHigh, wpc, exitCode, spc,
           retries, setupRv, attempts, delays, iter, whist, gpioWrite>>

(***************************************************************************)
(* pico-i2cd: variables                                                    *)
(***************************************************************************)
VARIABLES
  i2cAddr,       \* main: i2c.addr, the address selectAddr() dialed last
  ipc,           \* main's position: "open" (open the adaptor), "status"
                 \* (inside if (status)), "uinput" (at if (input_loop)),
                 \* "scan", "sync", "sleep" (the input loop), "exit"
  iexit,         \* main's return value once ipc = "exit"
  sidx,          \* index of the next line of the status dump
  line,          \* the value printed by the latest step, NoLine if none
  i,             \* main: int i, the key the for loop scans next
  release,       \* main: char release[3], indexed 0..2
  synchronise,   \* main: char synchronise
  steps,         \* the passes of the for loop since the last usleep()
  sink,          \* the write()s to the uinput device since the last usleep()
  watched,       \* the key whose polls khist records
  khist,         \* outcome of the first MaxPolls polls of key `watched'
  slave,         \* the address the adaptor is set to by the last successful
                 \* ioctl(I2C_SLAVE), -1 before the first one
  bus,           \* the register calls (getWord, getByte, setByte) of the
                 \* latest step, in order
  balance,       \* per key, the presses minus the releases the uinput device
                 \* accepted so far
  last           \* per key, the event the uinput device accepted last:
                 \* "none", "press" or "release"

ivars == <<i2cAddr, ipc, iexit, sidx, line, i, release, synchronise, steps,
           sink, watched, khist, slave, bus, balance, last>>

(***************************************************************************)
(* getFloat on its own: variables                                          *)
(***************************************************************************)
VARIABLES
  hi,            \* the high byte of the word handed to getFloat
  lo,            \* the low byte of the word handed to getFloat
  volts          \* what getFloat returned, in hundredths; -1 before the call

dvars == <<hi, lo, volts>>

(***************************************************************************)
(* The PIco's key registers, for the runs that give them a behaviour       *)
(***************************************************************************)
VARIABLES
  keyreg         \* per key, the value of its status register 0x09 + key

hvars == <<keyreg>>

vars == <<wvars, ivars, dvars, hvars>>

(***************************************************************************)
(* picod: the GPIO primitives, as functions of what the system calls       *)
(* return.  fd is the result of open(), written the result of write(),     *)
(* closeRv the result of the last close() of the EINTR loop.               *)
(***************************************************************************)

\* static int export(int gpio); blen is the result of snprintf()
export(blen, fd, written, closeRv) ==
  IF blen < 0 THEN -1
  ELSE IF fd < 0 THEN -2
  ELSE LET rv0 == IF written < blen THEN -3 ELSE 0
           \* rv = close(fd) overwrites rv0
           rv == closeRv
       IN  rv

\* static int direction(int gpio, char output); fmt is the result of snprintf()
direction(fmt, output, fd, written, closeRv) ==
  IF fmt < 0 THEN -1
  ELSE IF fd < 0 THEN -2
  ELSE LET need == IF output # 0 THEN 4 ELSE 3
           rv0 == IF written < need THEN -3 ELSE 0
           \* rv = close(fd) overwrites rv0
           rv == closeRv
       IN  rv

\* static int set(int gpio, char state): the write()'s result is ignored
set(fmt, fd, closeRv) ==
  IF fmt < 0 THEN -1
  ELSE IF fd # 0 THEN closeRv ELSE 0

\* static int get(int gpio); r is the result of read(), ch is buf[0]
get(fmt, fd, r, ch) ==
  IF fmt < 0 THEN -1
  ELSE IF fd # 0
       THEN IF r < 1 THEN -2 ELSE (IF ch = "1" THEN 1 ELSE 0)
       ELSE 0

\* static int pulse(int gpio, unsigned int period, unsigned int duration);
\* s1 and s0 are the results of set(gpio, 1) and set(gpio, 0).
\* slept is the total time handed to usleep() by the call.
pulse(period, duration, s1, s0) ==
  IF s1 # 0 THEN [rv |-> -1, slept |-> 0]
  ELSE IF s0 # 0 THEN [rv |-> -2, slept |-> duration]
  ELSE [rv |-> 0, slept |-> duration + (period - duration)]

(***************************************************************************)
(* What the system calls can return.  open() yields -1 on failure, and 0   *)
(* only if descriptor 0 was closed when the daemon was started; read() and *)
(* close() on descriptor -1 fail.                                          *)
(***************************************************************************)
ExportCalls ==
  { [blen |-> 2, fd |-> -1, written |-> -1, closeRv |-> -1] } \cup
  { [blen |-> 2, fd |-> 3, written |-> w, closeRv |-> c] :
      w \in {-1, 1, 2}, c \in {-1, 0} }

DirectionCalls(output) ==
  { [fmt |-> 30, fd |-> -1, written |-> -1, closeRv |-> -1] } \cup
  { [fmt |-> 30, fd |-> 3, written |-> w, closeRv |-> c] :
      w \in {-1, 1, IF output # 0 THEN 4 ELSE 3}, c \in {-1, 0} }

SetCalls ==
  { [fmt |-> 26, fd |-> -1, closeRv |-> -1],
    [fmt |-> 26, fd |-> 0, closeRv |-> 0],
    [fmt |-> 26, fd |-> 3, closeRv |-> 0],
    [fmt |-> 26, fd |-> 3, closeRv |-> -1] }

GetCalls ==
  { [fmt |-> 26, fd |-> -1, r |-> -1, ch |-> "0"],
    [fmt |-> 26, fd |-> 0, r |-> 0, ch |-> "0"],
    [fmt |-> 26, fd |-> 3, r |-> -1, ch |-> "0"],
    [fmt |-> 26, fd |-> 3, r |-> 0, ch |-> "0"],
    [fmt |-> 26, fd |-> 3, r |-> 2, ch |-> "0"],
    [fmt |-> 26, fd |-> 3, r |-> 2, ch |-> "1"] }

(***************************************************************************)
(* picod: initial state (after option parsing).  Option -n (fssd) is read  *)
(* by every loop iteration and is a variable; option -d (daemonise) is     *)
(* read once, by the step that uses it, and is an input of that step.      *)
(***************************************************************************)
NoIter == [sense |-> 0, read |-> FALSE, pulsed |-> FALSE, pulseRv |-> 0,
           slept |-> 0, shutdown |-> FALSE]

WInit ==
  /\ fssd \in {0, 1}
  /\ initialPulse = 1
  /\ fssdWasHigh = 0
  /\ wpc = "setup22"
  /\ exitCode = 0
  /\ spc = "export"
  /\ retries = 0
  /\ setupRv = 0
  /\ attempts = 0
  /\ delays = <<>>
  /\ iter = NoIter
  /\ whist = <<>>
  /\ gpioWrite = "none"

(***************************************************************************)
(* picod: setup(gpio, output), called by main for pin 22 and then pin 27   *)
(***************************************************************************)
SetupOutput == IF wpc = "setup22" THEN 1 ELSE 0

\* main's return value when the setup() call at position p fails
SetupError(p) == IF p = "setup22" THEN -1 ELSE -4

\* main's position after the setup() call at position p succeeded
AfterSetup(p) == IF p = "setup22" /\ fssd = 1 THEN "setup27" ELSE "daemon"

\* mutant of RetryDirection: the counter is incremented before the comparison
RetryDirection_PreIncrement(rv, n) == rv < 0 /\ n + 1 < maxRetries

\* the condition of setup's do ... while: (rv < 0) && (retries++ < maxRetries)
RetryDirection(rv, n) == rv < 0 /\ n < maxRetries

\* what gpioWrite records for a call that opened descriptor fd (after
\* formatting fmt characters) and whose write() of need bytes returned written
WriteOutcome(fmt, fd, written, need) ==
  IF fmt < 0 \/ fd < 0 THEN "none"
  ELSE IF written < need THEN "short" ELSE "full"

\* mutant of ExportFailed: the result of export() is not checked
ExportFailed_Ignored(rv) == FALSE

\* if (rv < 0) return rv; after rv = export(gpio)
ExportFailed(rv) == rv < 0

\* mutant of RetryDelay: the delay grows linearly
RetryDelay_Linear(n) == n * 1000

\* usleep(retries * retries * 1000);
RetryDelay(n) == n * n * 1000

\* rv = export(gpio); if (rv < 0) return rv;
SetupExport ==
  /\ wpc \in {"setup22", "setup27"}
  /\ spc = "export"
  /\ \E c \in ExportCalls :
       LET rv == export(c.blen, c.fd, c.written, c.closeRv) IN
       /\ setupRv' = rv
       /\ retries' = 0
       /\ attempts' = 0
       /\ delays' = <<>>
       /\ gpioWrite' = WriteOutcome(c.blen, c.fd, c.written, c.blen)
       /\ IF ExportFailed(rv)
          THEN /\ wpc' = "exit"
               /\ exitCode' = SetupError(wpc)
               /\ spc' = spc
          ELSE /\ spc' = "direction"
               /\ UNCHANGED <<wpc, exitCode>>
  /\ UNCHANGED <<fssd, initialPulse, fssdWasHigh, iter, whist>>
  /\ UNCHANGED <<ivars, dvars, hvars>>

\* one pass of the do ... while loop of setup(), and setup's return when the
\* loop ends
SetupDirection ==
  /\ wpc \in {"setup22", "setup27"}
  /\ spc = "direction"
  /\ \E c \in DirectionCalls(SetupOutput) :
       LET rv == direction(c.fmt, SetupOutput, c.fd, c.written, c.closeRv) IN
       /\ delays' = IF retries > 0
                    THEN Append(delays, RetryDelay(retries))
                    ELSE delays
       /\ attempts' = attempts + 1
       /\ gpioWrite' = WriteOutcome(c.fmt, c.fd, c.written,
                                    IF SetupOutput # 0 THEN 4 ELSE 3)
       /\ setupRv' = rv
       /\ retries' = IF rv < 0 THEN retries + 1 ELSE retries
       /\ IF RetryDirection(rv, retries)
          THEN UNCHANGED <<wpc, exitCode, spc>>
          ELSE IF rv < 0
               THEN /\ wpc' = "exit"
                    /\ exitCode' = SetupError(wpc)
                    /\ spc' = spc
               ELSE /\ wpc' = AfterSetup(wpc)
                    /\ spc' = "export"
                    /\ exitCode' = exitCode
  /\ UNCHANGED <<fssd, initialPulse, fssdWasHigh, iter, whist>>
  /\ UNCHANGED <<ivars, dvars, hvars>>

\* if (daemonise == 1) { if (daemon(0, 0) < 0) return -2; }
Daemonise ==
  /\ wpc = "daemon"
  /\ \E daemonise \in {0, 1}, d \in {-1, 0} :
       IF daemonise = 1 /\ d < 0
       THEN wpc' = "exit" /\ exitCode' = -2
       ELSE wpc' = "loop" /\ exitCode' = exitCode
  /\ gpioWrite' = "none"
  /\ UNCHANGED <<fssd, initialPulse, fssdWasHigh, spc, retries,
                 setupRv, attempts, delays, iter, whist>>
  /\ UNCHANGED <<ivars, dvars, hvars>>

(***************************************************************************)
(* picod: one iteration of main's while (1) loop                           *)
(***************************************************************************)
\* mutant of SenseUpdate: any nonzero reading, a failed read too, counts as HIGH
SenseUpdate_NonzeroIsHigh(signal, was) == IF signal # 0 THEN 1 ELSE was

\* fssdWasHigh = (fssdSignal == 1) ? 1 : fssdWasHigh;
SenseUpdate(signal, was) == IF signal = 1 THEN 1 ELSE was

\* mutant of PulseDue: no initial pulse
PulseDue_NoInitial(initial, was) == was = 1

\* if ((initialPulse == 1) || (fssdWasHigh == 1))
PulseDue(initial, was) == initial = 1 \/ was = 1

\* mutant of ShutdownDue: a LOW reading alone triggers the shutdown
ShutdownDue_AnyLow(was, signal) == signal = 0

\* mutant of ShutdownDue: every reading other than HIGH, a failed read too,
\* triggers the shutdown
ShutdownDue_NotHigh(was, signal) == was = 1 /\ signal # 1

\* if ((fssdWasHigh == 1) && (fssdSignal == 0))
ShutdownDue(was, signal) == was = 1 /\ signal = 0

\* mutant of ShutdownReset: fssdWasHigh is not reset after the shutdown
ShutdownReset_Kept(down, was) == was

\* fssdWasHigh = 0; at the end of the shutdown branch
ShutdownReset(down, was) == IF down THEN 0 ELSE was

\* what get(27), set(22, x) and pulse(22, 500000, 250000) can return
GetResults == { get(g.fmt, g.fd, g.r, g.ch) : g \in GetCalls }

SetResults == { set(c.fmt, c.fd, c.closeRv) : c \in SetCalls }

PulseResults ==
  { pulse(HeartbeatPeriod, HeartbeatDuration, s1, s0) : s1, s0 \in SetResults }

NoPulse == [rv |-> 0, slept |-> 0]

\* mutant of SenseReadings: pin 27 is read also when -n was given
SenseReadings_AlwaysRead(f) == GetResults

\* int fssdSignal = (fssd == 1) ? get(27) : 1; the values it can take
SenseReadings(f) == IF f = 1 THEN GetResults ELSE {1}

WatchdogIteration ==
  /\ wpc = "loop"
  /\ \E fssdSignal \in SenseReadings(fssd) :
       LET was == SenseUpdate(fssdSignal, fssdWasHigh)
           due == PulseDue(initialPulse, was)
           down == ShutdownDue(was, fssdSignal)
       IN
       \E p \in (IF due THEN PulseResults ELSE {NoPulse}) :
         /\ initialPulse' = IF due THEN 0 ELSE initialPulse
         /\ fssdWasHigh' = ShutdownReset(down, was)
         /\ iter' = [sense |-> fssdSignal, read |-> (fssd = 1),
                     pulsed |-> due, pulseRv |-> p.rv, slept |-> p.slept,
                     shutdown |-> down]
         /\ whist' = IF Len(whist) < MaxIter
                     THEN Append(whist, [sense |-> fssdSignal, pulsed |-> due,
                                         shutdown |-> down])
                     ELSE whist
  /\ UNCHANGED <<fssd, wpc, exitCode, spc, retries, setupRv,
                 attempts, delays, gpioWrite>>
  /\ UNCHANGED <<ivars, dvars, hvars>>

(***************************************************************************)
(* pico-i2cd: the register client.  cur is i2c->addr; ioctlRv, res are the *)
(* results of ioctl(I2C_SLAVE) and of the i2c_smbus_* call.  The result    *)
(* holds the return value rv, the new i2c->addr, whether the ioctl and the *)
(* SMBus transaction were issued, the address and the register asked for,  *)
(* i2c->addr before the call (cur), the result of selectAddr (sel), the    *)
(* result of the SMBus call (res) and the value getWord, getByte or        *)
(* setByte returned (ret; rv is what the accessor built on it returns).    *)
(***************************************************************************)

\* mutant of getFloat: a low byte above 99 is reduced to two decimal digits
getFloat_TwoDigits(w) ==
  LET v1 == w % 256
      v2 == (w \div 256) % 256
  IN  100 * v2 + (v1 % 100)

\* static float getFloat(long w), in hundredths: v2 + v1 / 100.
getFloat(w) ==
  LET v1 == w % 256
      v2 == (w \div 256) % 256
  IN  100 * v2 + v1

\* mutant of selectAddr: i2c->addr is set before the ioctl's result is known
selectAddr_CacheBeforeIoctl(cur, addr, ioctlRv) ==
  IF cur = addr THEN [rv |-> 0, addr |-> cur, ioctl |-> FALSE]
  ELSE IF ioctlRv < 0 THEN [rv |-> -1, addr |-> addr, ioctl |-> TRUE]
  ELSE [rv |-> 0, addr |-> addr, ioctl |-> TRUE]

\* static int selectAddr(struct i2c *i2c, int addr)
selectAddr(cur, addr, ioctlRv) ==
  IF cur = addr THEN [rv |-> 0, addr |-> cur, ioctl |-> FALSE]
  ELSE IF ioctlRv < 0 THEN [rv |-> -1, addr |-> cur, ioctl |-> TRUE]
  ELSE [rv |-> 0, addr |-> addr, ioctl |-> TRUE]

\* mutant of Transaction: the result of selectAddr is not checked
Transaction_SelectUnchecked(cur, addr, reg, ioctlRv, res) ==
  LET sel == selectAddr(cur, addr, ioctlRv) IN
  [rv |-> IF res < 0 THEN -3 ELSE res, addr |-> sel.addr,
   ioctl |-> sel.ioctl, xfer |-> TRUE, dev |-> addr, reg |-> reg,
   cur |-> cur, sel |-> sel.rv, res |-> res,
   ret |-> IF res < 0 THEN -3 ELSE res]

\* the body shared by getWord, getByte and setByte
Transaction(cur, addr, reg, ioctlRv, res) ==
  LET sel == selectAddr(cur, addr, ioctlRv) IN
  IF sel.rv < 0
  THEN [rv |-> -1, addr |-> sel.addr, ioctl |-> sel.ioctl, xfer |-> FALSE,
        dev |-> addr, reg |-> reg, cur |-> cur, sel |-> sel.rv, res |-> 0,
        ret |-> -1]
  ELSE [rv |-> IF res < 0 THEN -3 ELSE res, addr |-> sel.addr,
        ioctl |-> sel.ioctl, xfer |-> TRUE, dev |-> addr, reg |-> reg,
        cur |-> cur, sel |-> sel.rv, res |-> res,
        ret |-> IF res < 0 THEN -3 ELSE res]

\* static long getWord(struct i2c *i2c, int addr, int reg)
getWord(cur, addr, reg, ioctlRv, res) == Transaction(cur, addr, reg, ioctlRv, res)

\* static long getByte(struct i2c *i2c, int addr, int reg)
getByte(cur, addr, reg, ioctlRv, res) == Transaction(cur, addr, reg, ioctlRv, res)

\* static long setByte(struct i2c *i2c, int addr, int reg, int value)
setByte(cur, addr, reg, value, ioctlRv, res) ==
  Transaction(cur, addr, reg, ioctlRv, res)

\* static float getBatteryVoltage(struct i2c *i2c)
getBatteryVoltage(cur, ioctlRv, res) ==
  LET w == getWord(cur, 105, 1, ioctlRv, res) IN [w EXCEPT !.rv = getFloat(w.rv)]

\* static float getHostVoltage(struct i2c *i2c)
getHostVoltage(cur, ioctlRv, res) ==
  LET w == getWord(cur, 105, 3, ioctlRv, res) IN [w EXCEPT !.rv = getFloat(w.rv)]

\* static long getVersion(struct i2c *i2c)
getVersion(cur, ioctlRv, res) == getByte(cur, 107, 0, ioctlRv, res)

\* static long getMode(struct i2c *i2c)
getMode(cur, ioctlRv, res) == getByte(cur, 105, 0, ioctlRv, res)

\* static long getKey(struct i2c *i2c, int key)
getKey(cur, key, ioctlRv, res) == getByte(cur, 105, 9 + key, ioctlRv, res)

\* static long resetKey(struct i2c *i2c, int key)
resetKey(cur, key, ioctlRv, res) == setByte(cur, 105, 9 + key, 0, ioctlRv, res)

\* static long getTemperature(struct i2c *i2c, int sensor)
getTemperature(cur, sensor, ioctlRv, res) ==
  getByte(cur, 105, 12 + sensor, ioctlRv, res)

(***************************************************************************)
(* What the bus and the uinput device can return.                          *)
(***************************************************************************)
IoctlResults == {-1, 0}

ByteValues == {0, 1}

WordValues == {0, 3634, 65535}

ByteResults == {-1} \cup ByteValues

WordResults == {-1} \cup WordValues

WriteResults == {-1, 0}

\* the ioctl results that matter to a call for address addr
IoctlFor(cur, addr) == IF cur = addr THEN {0} ELSE IoctlResults

\* the address the adaptor is set to after the register call t, whose
\* ioctl(I2C_SLAVE), if it made one, returned ioctlRv
Dialled(at, t, ioctlRv) == IF t.ioctl /\ ioctlRv >= 0 THEN t.dev ELSE at

\* the entry of bus for the register call t made while the adaptor was set
\* to address at: at becomes the address the SMBus transaction went to
BusCall(at, t, ioctlRv) ==
  [cur |-> t.cur, dev |-> t.dev, reg |-> t.reg, ioctl |-> t.ioctl,
   ioctlRv |-> IF t.ioctl THEN ioctlRv ELSE 0, sel |-> t.sel,
   xfer |-> t.xfer, res |-> t.res, ret |-> t.ret, addr |-> t.addr,
   at |-> Dialled(at, t, ioctlRv)]

(***************************************************************************)
(* pico-i2cd: initial state (after option parsing).  The options -s        *)
(* (status), -i (input_loop) and -d (daemonise) are each read once, by the *)
(* step that uses them, and are inputs of that step.                       *)
(***************************************************************************)
NoLine == [metric |-> "none", value |-> 0]

\* int code[3] = {BTN_A, BTN_B, BTN_C};
code == <<"BTN_A", "BTN_B", "BTN_C">>

IInit ==
  /\ i2cAddr = 0
  /\ ipc = "open"
  /\ iexit = 0
  /\ sidx = 0
  /\ line = NoLine
  /\ i = 0
  /\ release = [k \in 0..2 |-> 0]
  /\ synchronise = 0
  /\ steps = <<>>
  /\ sink = <<>>
  /\ watched \in 0..2
  /\ khist = <<>>
  /\ slave = -1
  /\ bus = <<>>
  /\ balance = [k \in 0..2 |-> 0]
  /\ last = [k \in 0..2 |-> "none"]

\* the key registers are given no behaviour: every read returns any value
HIdle == keyreg = [k \in 0..2 |-> 0]

\* getFloat is not being exercised
DIdle ==
  /\ hi = 0
  /\ lo = 0
  /\ volts = -1

(***************************************************************************)
(* pico-i2cd: main up to the input loop                                    *)
(***************************************************************************)
\* i2c.device = open(adaptor, O_RDWR); if (i2c.device < 0) return -1;
OpenAdaptor ==
  /\ ipc = "open"
  /\ \E fd \in {-1, 3}, status \in {0, 1} :
       IF fd < 0
       THEN ipc' = "exit" /\ iexit' = -1
       ELSE /\ ipc' = IF status # 0 THEN "status" ELSE "uinput"
            /\ iexit' = iexit
  /\ UNCHANGED <<i2cAddr, sidx, line, i, release, synchronise, steps, sink,
                 watched, khist, slave, bus, balance, last>>
  /\ UNCHANGED <<wvars, dvars, hvars>>

\* the sidx-th printf of the status dump
StatusCall(n, cur, ioctlRv, res) ==
  CASE n = 0 -> getVersion(cur, ioctlRv, res)
    [] n = 1 -> getMode(cur, ioctlRv, res)
    [] n = 2 -> getBatteryVoltage(cur, ioctlRv, res)
    [] n = 3 -> getHostVoltage(cur, ioctlRv, res)
    [] n = 4 -> getTemperature(cur, 0, ioctlRv, res)
    [] n = 5 -> getTemperature(cur, 1, ioctlRv, res)

StatusMetric(n) ==
  CASE n = 0 -> "pico_firmware_version"
    [] n = 1 -> "pico_mode"
    [] n = 2 -> "pico_battery_volts"
    [] n = 3 -> "pico_host_volts"
    [] n = 4 -> "pico_temperature_1_celsius_degrees"
    [] n = 5 -> "pico_temperature_2_celsius_degrees"

StatusDump ==
  /\ ipc = "status"
  /\ \E ioctlRv \in IoctlResults,
        res \in (IF sidx \in {2, 3} THEN WordResults ELSE ByteResults) :
       LET r == StatusCall(sidx, i2cAddr, ioctlRv, res) IN
       /\ i2cAddr' = r.addr
       /\ line' = [metric |-> StatusMetric(sidx), value |-> r.rv]
       /\ slave' = Dialled(slave, r, ioctlRv)
       /\ bus' = <<BusCall(slave, r, ioctlRv)>>
  /\ sidx' = sidx + 1
  /\ ipc' = IF sidx = 5 THEN "uinput" ELSE ipc
  /\ UNCHANGED <<iexit, i, release, synchronise, steps, sink, watched,
                 khist, balance, last>>
  /\ UNCHANGED <<wvars, dvars, hvars>>

\* if (input_loop) { open uinput, daemon(), declare the device }
\* else { close(i2c.device); return 0; }
UinputSetup ==
  /\ ipc = "uinput"
  /\ \E input_loop \in {0, 1}, daemonise \in {0, 1}, device \in {-1, 4},
        d \in {-1, 0}, registered \in BOOLEAN :
       IF input_loop = 0 THEN ipc' = "exit" /\ iexit' = 0
       ELSE IF device < 0 THEN ipc' = "exit" /\ iexit' = -2
       ELSE IF daemonise = 1 /\ d < 0 THEN ipc' = "exit" /\ iexit' = -3
       ELSE IF ~registered THEN ipc' = "exit" /\ iexit' = -5
       ELSE ipc' = "scan" /\ iexit' = iexit
  /\ line' = NoLine
  /\ bus' = <<>>
  /\ UNCHANGED <<i2cAddr, sidx, i, release,
                 synchronise, steps, sink, watched, khist, slave, balance,
                 last>>
  /\ UNCHANGED <<wvars, dvars, hvars>>

(***************************************************************************)
(* pico-i2cd: the input loop                                               *)
(***************************************************************************)
\* mutant of KeyStep: the release flag is not consulted, so a key that is
\* still read as pressed is reported again
KeyStep_NoDebounce(rel, scan, accepted) ==
  IF scan > 0
  THEN [wrote |-> "press", accepted |-> accepted, reset |-> accepted,
        release |-> IF accepted THEN 1 ELSE rel, synchronise |-> accepted]
  ELSE IF rel # 0 /\ scan = 0
       THEN [wrote |-> "release", accepted |-> accepted, reset |-> FALSE,
             release |-> IF accepted THEN 0 ELSE rel,
             synchronise |-> accepted]
       ELSE [wrote |-> "none", accepted |-> FALSE, reset |-> rel # 0,
             release |-> rel, synchronise |-> FALSE]

\* mutant of KeyStep: the release flag is updated before the result of the
\* write() is known
KeyStep_FlagBeforeWrite(rel, scan, accepted) ==
  IF rel # 0
  THEN IF scan = 0
       THEN [wrote |-> "release", accepted |-> accepted, reset |-> FALSE,
             release |-> 0, synchronise |-> accepted]
       ELSE [wrote |-> "none", accepted |-> FALSE, reset |-> TRUE,
             release |-> rel, synchronise |-> FALSE]
  ELSE IF scan > 0
       THEN [wrote |-> "press", accepted |-> accepted, reset |-> accepted,
             release |-> 1, synchronise |-> accepted]
       ELSE [wrote |-> "none", accepted |-> FALSE, reset |-> FALSE,
             release |-> rel, synchronise |-> FALSE]

\* mutant of KeyStep: synchronise is set whenever an event is written, also
\* when the device rejects it
KeyStep_SyncOnAttempt(rel, scan, accepted) ==
  IF rel # 0
  THEN IF scan = 0
       THEN [wrote |-> "release", accepted |-> accepted, reset |-> FALSE,
             release |-> IF accepted THEN 0 ELSE rel, synchronise |-> TRUE]
       ELSE [wrote |-> "none", accepted |-> FALSE, reset |-> TRUE,
             release |-> rel, synchronise |-> FALSE]
  ELSE IF scan > 0
       THEN [wrote |-> "press", accepted |-> accepted, reset |-> accepted,
             release |-> IF accepted THEN 1 ELSE rel, synchronise |-> TRUE]
       ELSE [wrote |-> "none", accepted |-> FALSE, reset |-> FALSE,
             release |-> rel, synchronise |-> FALSE]

\* mutant of KeyStep: an armed key is released unless it scans as pressed, so
\* a failed read releases it
KeyStep_FailIsReleased(rel, scan, accepted) ==
  IF rel # 0
  THEN IF scan <= 0
       THEN [wrote |-> "release", accepted |-> accepted, reset |-> FALSE,
             release |-> IF accepted THEN 0 ELSE rel,
             synchronise |-> accepted]
       ELSE [wrote |-> "none", accepted |-> FALSE, reset |-> TRUE,
             release |-> rel, synchronise |-> FALSE]
  ELSE IF scan > 0
       THEN [wrote |-> "press", accepted |-> accepted, reset |-> accepted,
             release |-> IF accepted THEN 1 ELSE rel,
             synchronise |-> accepted]
       ELSE [wrote |-> "none", accepted |-> FALSE, reset |-> FALSE,
             release |-> rel, synchronise |-> FALSE]

\* mutant of KeyStep: a key that scans 0 is released whether or not a press
\* was reported for it
KeyStep_ReleaseUnarmed(rel, scan, accepted) ==
  IF scan = 0
  THEN [wrote |-> "release", accepted |-> accepted, reset |-> FALSE,
        release |-> IF accepted THEN 0 ELSE rel, synchronise |-> accepted]
  ELSE IF rel # 0
       THEN [wrote |-> "none", accepted |-> FALSE, reset |-> TRUE,
             release |-> rel, synchronise |-> FALSE]
       ELSE IF scan > 0
            THEN [wrote |-> "press", accepted |-> accepted, reset |-> accepted,
                  release |-> IF accepted THEN 1 ELSE rel,
                  synchronise |-> accepted]
            ELSE [wrote |-> "none", accepted |-> FALSE, reset |-> FALSE,
                  release |-> rel, synchronise |-> FALSE]

\* mutant of KeyStep: resetKey is called after an accepted press only, not
\* again while the key is armed
KeyStep_NoResetRetry(rel, scan, accepted) ==
  IF rel # 0
  THEN IF scan = 0
       THEN [wrote |-> "release", accepted |-> accepted, reset |-> FALSE,
             release |-> IF accepted THEN 0 ELSE rel,
             synchronise |-> accepted]
       ELSE [wrote |-> "none", accepted |-> FALSE, reset |-> FALSE,
             release |-> rel, synchronise |-> FALSE]
  ELSE IF scan > 0
       THEN [wrote |-> "press", accepted |-> accepted, reset |-> accepted,
             release |-> IF accepted THEN 1 ELSE rel,
             synchronise |-> accepted]
       ELSE [wrote |-> "none", accepted |-> FALSE, reset |-> FALSE,
             release |-> rel, synchronise |-> FALSE]

\* The branches of the for loop's body for a key whose release flag is rel
\* and whose status register read as scan; accepted tells whether the
\* write() of the key event returned sizeof(event).
KeyStep(rel, scan, accepted) ==
  IF rel # 0
  THEN IF scan = 0
       THEN [wrote |-> "release", accepted |-> accepted, reset |-> FALSE,
             release |-> IF accepted THEN 0 ELSE rel,
             synchronise |-> accepted]
       ELSE [wrote |-> "none", accepted |-> FALSE, reset |-> TRUE,
             release |-> rel, synchronise |-> FALSE]
  ELSE IF scan > 0
       THEN [wrote |-> "press", accepted |-> accepted, reset |-> accepted,
             release |-> IF accepted THEN 1 ELSE rel,
             synchronise |-> accepted]
       ELSE [wrote |-> "none", accepted |-> FALSE, reset |-> FALSE,
             release |-> rel, synchronise |-> FALSE]

\* The pass of the for loop for key k: getKey, the branches, resetKey.
\* ioctlRv and res are the bus results of getKey, ioctl2 and wres those of
\* resetKey.  The result is what the pass did: the key, its flag before
\* (was) and after (after), the value scanned, the event written and whether
\* the device accepted it, whether resetKey was called, whether synchronise
\* was set, and i2c.addr after the pass.
ScanPass(cur, k, rel, ioctlRv, res, accepted, ioctl2, wres) ==
  LET g == getKey(cur, k, ioctlRv, res)
      scan == g.rv
      b == KeyStep(rel, scan, accepted)
      z == resetKey(g.addr, k, ioctl2, wres)
  IN  [key |-> k, was |-> rel, scan |-> scan, wrote |-> b.wrote,
       accepted |-> b.accepted, reset |-> b.reset, after |-> b.release,
       sync |-> b.synchronise,
       addr |-> IF b.reset THEN z.addr ELSE g.addr]

\* the register calls of that pass with their bus results: getKey, and
\* resetKey if the pass calls it
ScanCalls(cur, k, rel, ioctlRv, res, accepted, ioctl2, wres) ==
  LET g == getKey(cur, k, ioctlRv, res)
      b == KeyStep(rel, g.rv, accepted)
      z == resetKey(g.addr, k, ioctl2, wres)
  IN  IF b.reset
      THEN <<[call |-> g, ioctlRv |-> ioctlRv], [call |-> z, ioctlRv |-> ioctl2]>>
      ELSE <<[call |-> g, ioctlRv |-> ioctlRv]>>

\* the address the adaptor is set to after the register calls cs, made in
\* order from address at
RECURSIVE DialledAfter(_, _)
DialledAfter(at, cs) ==
  IF cs = <<>> THEN at
  ELSE DialledAfter(Dialled(at, cs[1].call, cs[1].ioctlRv), Tail(cs))

\* the entries of bus for the register calls cs, made in order from address at
RECURSIVE BusCalls(_, _)
BusCalls(at, cs) ==
  IF cs = <<>> THEN <<>>
  ELSE <<BusCall(at, cs[1].call, cs[1].ioctlRv)>>
       \o BusCalls(Dialled(at, cs[1].call, cs[1].ioctlRv), Tail(cs))

\* the struct input_event written for key k
KeyEvent(k, wrote, ok) ==
  [type |-> "EV_KEY", code |-> code[k + 1],
   value |-> IF wrote = "press" THEN 1 ELSE 0, ok |-> ok]

\* The observation variables.  Under SpecInput (cycle = TRUE) steps and sink
\* log the current poll cycle, balance and last the key events accepted
\* since the start; under SpecKeys (cycle = FALSE) khist logs
\* the polls of one key over several cycles.
Observe(cycle, o) ==
  IF cycle
  THEN /\ steps' = Append(steps, o)
       /\ sink' = IF o.wrote # "none"
                  THEN Append(sink, KeyEvent(o.key, o.wrote, o.accepted))
                  ELSE sink
       /\ balance' = IF o.wrote # "none" /\ o.accepted
                     THEN [balance EXCEPT ![o.key] =
                             IF o.wrote = "press" THEN @ + 1 ELSE @ - 1]
                     ELSE balance
       /\ last' = IF o.wrote # "none" /\ o.accepted
                  THEN [last EXCEPT ![o.key] = o.wrote]
                  ELSE last
       /\ UNCHANGED khist
  ELSE /\ khist' = IF o.key = watched /\ Len(khist) < MaxPolls
                   THEN Append(khist, o)
                   ELSE khist
       /\ UNCHANGED <<steps, sink, balance, last>>

\* mutant of AfterPass: the while loop runs its body once
AfterPass_Once(n) == IF n < 3 THEN "scan" ELSE "exit"

\* main's position after a pass of the for loop left i = n: the next pass
\* while i < 3, then the rest of the body of while (1)
AfterPass(n) == IF n < 3 THEN "scan" ELSE "sync"

\* one pass of for (i = 0; i < 3; i++).  The results of the uinput write and
\* of resetKey's bus calls are drawn only when the pass makes those calls.
\* Under SpecKeys the run ends when khist holds MaxPolls polls.  What the
\* pass does to keyreg is left to the caller.
ScanKey(cycle) ==
  /\ ipc = "scan"
  /\ cycle \/ i # watched \/ Len(khist) < MaxPolls
  /\ \E ioctlRv \in IoctlFor(i2cAddr, 105), res \in ByteResults :
       LET p == ScanPass(i2cAddr, i, release[i], ioctlRv, res, TRUE, 0, 0) IN
       \E accepted \in (IF p.wrote # "none" THEN BOOLEAN ELSE {FALSE}) :
         LET q == ScanPass(i2cAddr, i, release[i], ioctlRv, res, accepted,
                           0, 0)
         IN
         \E ioctl2 \in (IF q.reset THEN IoctlFor(q.addr, 105) ELSE {0}),
            wres \in (IF q.reset THEN WriteResults ELSE {0}) :
           LET o == ScanPass(i2cAddr, i, release[i], ioctlRv, res, accepted,
                             ioctl2, wres)
               cs == ScanCalls(i2cAddr, i, release[i], ioctlRv, res, accepted,
                               ioctl2, wres)
           IN
           /\ i2cAddr' = o.addr
           /\ slave' = DialledAfter(slave, cs)
           /\ bus' = IF cycle THEN BusCalls(slave, cs) ELSE <<>>
           /\ release' = [release EXCEPT ![i] = o.after]
           /\ synchronise' = IF o.sync THEN 1 ELSE synchronise
           /\ Observe(cycle, o)
  /\ i' = i + 1
  /\ ipc' = AfterPass(i + 1)
  /\ UNCHANGED <<iexit, sidx, line, watched>>
  /\ UNCHANGED <<wvars, dvars>>

\* if (synchronise) { (void)write(device, &syn, sizeof(syn)); synchronise = 0; }
Synchronise(cycle) ==
  /\ ipc = "sync"
  /\ \E ok \in (IF cycle /\ synchronise # 0 THEN BOOLEAN ELSE {FALSE}) :
       sink' = IF cycle /\ synchronise # 0
               THEN Append(sink, [type |-> "EV_SYN", code |-> "SYN_REPORT",
                                  value |-> 0, ok |-> ok])
               ELSE sink
  /\ synchronise' = 0
  /\ ipc' = "sleep"
  /\ bus' = <<>>
  /\ UNCHANGED <<i2cAddr, iexit, sidx, line, i, release, steps, watched,
                 khist, slave, balance, last>>
  /\ UNCHANGED <<wvars, dvars, hvars>>

\* (void)usleep(100000); and the next pass of while (1) starts with i = 0
Sleep ==
  /\ ipc = "sleep"
  /\ ipc' = "scan"
  /\ i' = 0
  /\ steps' = <<>>
  /\ sink' = <<>>
  /\ UNCHANGED <<i2cAddr, iexit, sidx, line, release, synchronise, watched,
                 khist, slave, bus, balance, last>>
  /\ UNCHANGED <<wvars, dvars, hvars>>

(***************************************************************************)
(* pico-i2cd with latched key registers: a register becomes 1 when its key *)
(* is pressed and 0 when a resetKey write succeeds; a getKey read that     *)
(* succeeds returns the register.                                          *)
(***************************************************************************)
\* the pass ScanKey just logged
ThisPass == steps'[Len(steps')]

\* the pass called resetKey and its i2c_smbus_write_byte_data succeeded
ResetWritten == Len(bus') = 2 /\ bus'[2].xfer /\ bus'[2].res >= 0

\* a pass of the for loop against the latched register of key i
LatchedScan ==
  /\ ScanKey(TRUE)
  /\ ThisPass.scan < 0 \/ ThisPass.scan = keyreg[i]
  /\ keyreg' = IF ResetWritten THEN [keyreg EXCEPT ![i] = 0] ELSE keyreg

\* the user presses key k
Press(k) ==
  /\ keyreg[k] = 0
  /\ keyreg' = [keyreg EXCEPT ![k] = 1]
  /\ UNCHANGED <<wvars, ivars, dvars>>

(***************************************************************************)
(* getFloat on its own: the word an SMBus read returns is made of the two  *)
(* bytes the device sent, and getFloat is applied to it once.              *)
(***************************************************************************)
Byte == 0..255

\* the value of i2c_smbus_read_word_data for the bytes l (sent first) and h
Word(h, l) == 256 * h + l

Decode ==
  /\ volts = -1
  /\ volts' = getFloat(Word(hi, lo))
  /\ UNCHANGED <<hi, lo>>
  /\ UNCHANGED <<wvars, ivars, hvars>>

(***************************************************************************)
(* Specifications                                                          *)
(***************************************************************************)
WNext == SetupExport \/ SetupDirection \/ Daemonise \/ WatchdogIteration

\* pico-i2cd, logging each poll cycle
INext == OpenAdaptor \/ StatusDump \/ UinputSetup
         \/ (ScanKey(TRUE) /\ UNCHANGED hvars)
         \/ Synchronise(TRUE) \/ Sleep

\* pico-i2cd, logging the polls of the watched key
KNext == OpenAdaptor \/ StatusDump \/ UinputSetup
         \/ (ScanKey(FALSE) /\ UNCHANGED hvars)
         \/ Synchronise(FALSE) \/ Sleep

\* pico-i2cd against latched key registers: the steps of the programme
LProgram == OpenAdaptor \/ StatusDump \/ UinputSetup \/ LatchedScan
            \/ Synchronise(TRUE) \/ Sleep

\* the user presses the watched key
PressWatched == Press(watched)

\* and the user, who may press the watched key at any time and leaves the
\* other keys alone
LNext == LProgram \/ PressWatched

\* picod alone: pico-i2cd is not running
WatchdogInit ==
  /\ HIdle
  /\ WInit
  /\ IInit
  /\ watched = 0
  /\ DIdle

\* pico-i2cd alone: picod is not running
InputInit ==
  /\ HIdle
  /\ IInit
  /\ WInit
  /\ fssd = 1
  /\ watched = 0
  /\ DIdle

KeysInit ==
  /\ HIdle
  /\ IInit
  /\ WInit
  /\ fssd = 1
  /\ DIdle

\* either daemon alone: the one that takes the first step runs, the other
\* stays where it started
EitherInit ==
  /\ HIdle
  /\ WInit
  /\ IInit
  /\ watched = 0
  /\ DIdle

PicodNotStarted == wpc = "setup22" /\ spc = "export"

I2cdNotStarted == ipc = "open"

ENext == (I2cdNotStarted /\ WNext) \/ (PicodNotStarted /\ INext)

\* getFloat applied to every 16-bit word
DecodeInit ==
  /\ HIdle
  /\ WInit
  /\ fssd = 1
  /\ IInit
  /\ watched = 0
  /\ hi \in Byte
  /\ lo \in Byte
  /\ volts = -1

DNext == Decode

LiveInit ==
  /\ IInit
  /\ WInit
  /\ fssd = 1
  /\ DIdle
  /\ keyreg = [k \in 0..2 |-> 0]

\* the programme keeps taking steps
LiveFairness == WF_vars(LProgram)

SpecWatchdog == WatchdogInit /\ [][WNext]_vars

SpecInput == InputInit /\ [][INext]_vars

SpecKeys == KeysInit /\ [][KNext]_vars

SpecEither == EitherInit /\ [][ENext]_vars

SpecDecode == DecodeInit /\ [][DNext]_vars

SpecLive == LiveInit /\ [][LNext]_vars /\ LiveFairness


(***************************************************************************)
(* Claims about picod                                                      *)
(***************************************************************************)
\* the iterations recorded in whist
Iters == 1..Len(whist)

\* the readings of iterations 1..n of whist are exactly the sequence seq
SenseIs(seq) ==
  /\ Len(whist) >= Len(seq)
  /\ \A p \in 1..Len(seq) : whist[p].sense = seq[p]

\* the iterations among 1..n of whist that invoked the shutdown
ShutdownsIn(n) == { p \in 1..n : whist[p].shutdown }

\* C2: with sense monitoring enabled, an iteration invokes the shutdown
\* action if and only if the sense pin reads LOW in it and read HIGH in some
\* earlier iteration with no shutdown invoked in between.
C2_ShutdownIffLowAfterHigh ==
  fssd = 1 =>
    \A p \in Iters :
      whist[p].shutdown <=>
        /\ whist[p].sense = 0
        /\ \E q \in 1..(p - 1) :
             /\ whist[q].sense = 1
             /\ \A r \in (q + 1)..(p - 1) : ~whist[r].shutdown

\* C2 witness: the readings low, high, high, low, low invoke the shutdown
\* once, at the fourth iteration.
C2_Witness ==
  /\ fssd = 1
  /\ SenseIs(<<0, 1, 1, 0, 0>>)
  /\ ShutdownsIn(5) = {4}

\* C3: as long as no read of the sense pin has returned HIGH (every read was
\* LOW or failed), the shutdown action has not been invoked.
C3_NoShutdownBeforeHigh ==
  (\A p \in Iters : whist[p].sense # 1) => (\A p \in Iters : ~whist[p].shutdown)

\* C3 witness: MaxIter iterations, with a LOW reading and a failed read among
\* them and no HIGH reading, and no shutdown.
C3_Witness ==
  /\ Len(whist) = MaxIter
  /\ \A p \in Iters : whist[p].sense # 1 /\ ~whist[p].shutdown
  /\ \E p, q \in Iters : p < q /\ whist[p].sense < 0 /\ whist[q].sense = 0

\* C4: the shutdown is invoked exactly at the HIGH-then-LOW edges of the
\* sense readings, i.e. at each LOW reading that is the first LOW reading
\* after a HIGH one; so the k-th edge produces the k-th shutdown, also after
\* an earlier shutdown.
C4_ShutdownAtEveryEdge ==
  \A p \in Iters :
    whist[p].shutdown <=>
      /\ whist[p].sense = 0
      /\ \E q \in 1..(p - 1) :
           /\ whist[q].sense = 1
           /\ \A r \in (q + 1)..(p - 1) : whist[r].sense # 0

\* C4 witness: after the shutdown of iteration 2 the readings low, high, low
\* invoke the shutdown a second time, at the final low.
C4_Witness ==
  /\ SenseIs(<<1, 0, 0, 1, 0>>)
  /\ ShutdownsIn(5) = {2, 5}

\* C5 as claimed: when setup() returns the direction-setup error it has made
\* exactly maxRetries calls of direction().
C5_ExactlyMaxRetriesAttempts ==
  (wpc = "exit" /\ spc = "direction") => attempts = maxRetries

\* C5 as amended: setup() never makes more than maxRetries + 1 calls of
\* direction(), and when it returns the direction-setup error every one of
\* exactly maxRetries + 1 calls (the first attempt and maxRetries retries)
\* has failed.
C5_MaxRetriesPlusOneAttempts ==
  /\ attempts <= maxRetries + 1
  /\ (wpc = "exit" /\ spc = "direction") =>
       (attempts = maxRetries + 1 /\ retries = maxRetries + 1 /\ setupRv < 0)

\* C5 witness: main has returned -1 because setup(22, 1) gave up after nine
\* failed calls of direction().
C5_Witness ==
  /\ wpc = "exit"
  /\ spc = "direction"
  /\ exitCode = -1
  /\ attempts = maxRetries + 1

\* C6 as claimed, for the iterations whose pulse did not fail: every
\* iteration of the watchdog loop sleeps for one period, also when it sends
\* no pulse.
C6_EveryIterationSleepsOnePeriod ==
  (Len(whist) > 0 /\ iter.pulseRv = 0) => iter.slept = HeartbeatPeriod

\* C9: an iteration in which the read of the sense pin fails invokes no
\* shutdown and leaves fssdWasHigh as it was.
C9_FailedReadIsNoEdge ==
  [][(wpc = "loop" /\ iter'.sense < 0) =>
       (~iter'.shutdown /\ fssdWasHigh' = fssdWasHigh)]_vars

\* C9 witness: the latest iteration failed to read the sense pin while
\* fssdWasHigh was set; it invoked no shutdown and fssdWasHigh is still set.
C9_Witness ==
  /\ Len(whist) > 1
  /\ iter.read /\ iter.sense < 0
  /\ ~iter.shutdown
  /\ fssdWasHigh = 1

\* C11: a pulse whose level-set fails still sleeps through both phases,
\* HeartbeatPeriod microseconds in all, and returns a failure code.
C11_FailedPulseStillSleeps ==
  (iter.pulsed /\ iter.pulseRv < 0) => iter.slept = HeartbeatPeriod

\* C15: an iteration attempts its pulse exactly when it is the first one or
\* fssdWasHigh is set after its sense update, the first one whatever the
\* sense pin reads; the result of the pulse has no part in the new
\* fssdWasHigh, and a failed pulse does not keep the next one from being
\* attempted.
C15_PulseIffFirstOrWasHigh ==
  [][wpc = "loop" =>
       LET first == Len(whist) = 0
           after == IF iter'.sense = 1 THEN 1 ELSE fssdWasHigh
       IN  /\ iter'.pulsed <=> (first \/ after = 1)
           /\ ~iter'.pulsed => (iter'.pulseRv = 0 /\ iter'.slept = 0)
           /\ fssdWasHigh' = IF after = 1 /\ iter'.sense = 0 THEN 0 ELSE after
           /\ (iter.pulsed /\ iter.pulseRv < 0 /\ after = 1) => iter'.pulsed]_vars

\* C15 witness: after the first iteration, an iteration attempted its pulse
\* because fssdWasHigh was set, the pulse failed and fssdWasHigh is still set.
C15_Witness ==
  /\ Len(whist) > 2
  /\ whist[1].pulsed /\ whist[1].sense # 1
  /\ ~whist[2].pulsed
  /\ iter.pulsed /\ iter.pulseRv < 0
  /\ fssdWasHigh = 1

\* C16: with sense monitoring disabled (-n), pin 27 is never set up nor
\* read, every iteration takes the sense as HIGH and attempts its pulse, and
\* no iteration invokes the shutdown.
C16_DisabledSenseNeverRead ==
  fssd = 0 =>
    /\ wpc # "setup27"
    /\ exitCode # -4
    /\ Len(whist) > 0 => (~iter.read /\ iter.sense = 1 /\ iter.pulsed)
    /\ \A p \in Iters : whist[p].sense = 1 /\ whist[p].pulsed /\ ~whist[p].shutdown
    /\ ~iter.shutdown

\* C16 witness: MaxIter iterations ran with -n; none read the pin or shut
\* down, and the latest pulse failed.
C16_Witness ==
  /\ fssd = 0
  /\ Len(whist) = MaxIter
  /\ ~iter.read /\ iter.pulsed /\ iter.pulseRv < 0
  /\ \A p \in Iters : whist[p].pulsed /\ ~whist[p].shutdown

\* C19: setup() does not sleep before its first direction attempt and
\* sleeps k * k * 1000 microseconds before its k-th retry, a strictly
\* increasing sequence; while it is still attempting, every attempt so far
\* failed, so the first successful attempt ends it.
C19_QuadraticBackoff ==
  /\ Len(delays) = IF attempts = 0 THEN 0 ELSE attempts - 1
  /\ \A k \in 1..Len(delays) : delays[k] = k * k * 1000
  /\ \A k \in 1..(Len(delays) - 1) : delays[k] < delays[k + 1]
  /\ (wpc \in {"setup22", "setup27"} /\ spc = "direction" /\ attempts > 0)
       => setupRv < 0
  /\ (attempts > 0 /\ setupRv >= 0) => retries = attempts - 1

\* C19 witness: the setup of pin 22 succeeded at its fourth direction
\* attempt, after sleeping 1, 4 and 9 milliseconds, and main went on.
C19_Witness ==
  /\ wpc \in {"setup27", "daemon"} /\ spc = "export"
  /\ attempts = 4 /\ setupRv = 0
  /\ delays = <<1000, 4000, 9000>>

\* C20: when export() fails, setup() returns at once: no direction attempt,
\* no delay, main exits with the error of that pin, and no iteration of
\* the watchdog loop (no pulse, no sense read, no shutdown) ever ran.
C20_ExportFailureNotRetried ==
  [][ /\ (wpc \in {"setup22", "setup27"} /\ spc = "export" /\ setupRv' < 0) =>
           /\ wpc' = "exit"
           /\ exitCode' = IF wpc = "setup22" THEN -1 ELSE -4
           /\ attempts' = 0 /\ delays' = <<>> /\ retries' = 0
           /\ whist' = <<>> /\ iter' = NoIter
           /\ initialPulse' = 1 /\ fssdWasHigh' = 0
      /\ wpc = "exit" => (wpc' = "exit" /\ whist' = whist /\ iter' = iter)
    ]_vars

\* C20 witness: pin 22 was set up, then the export of pin 27 failed and
\* picod exited with -4 without a direction attempt.
C20_Witness ==
  /\ wpc = "exit" /\ exitCode = -4
  /\ spc = "export" /\ setupRv < 0
  /\ attempts = 0 /\ delays = <<>>
  /\ whist = <<>>

\* C21: after an iteration that invoked the shutdown no later iteration
\* attempts a pulse as long as the sense pin has not read HIGH again; the
\* iteration in which it reads HIGH again attempts a pulse, and so do the
\* following ones up to and including the next one that invokes the shutdown.
C21_NoPulseAfterShutdownUntilHigh ==
  \A p \in Iters : whist[p].shutdown =>
    \A q \in (p + 1)..Len(whist) :
      /\ (\A r \in (p + 1)..q : whist[r].sense # 1) => ~whist[q].pulsed
      /\ ((\A r \in (p + 1)..(q - 1) : whist[r].sense # 1)
            /\ whist[q].sense = 1) =>
           \A r \in q..Len(whist) :
             (\A t \in q..(r - 1) : ~whist[t].shutdown) => whist[r].pulsed

\* C21 witness: the pin read HIGH, LOW (shutdown), then a failed read and
\* no pulse, then HIGH and a pulse again, then LOW with a pulse and the
\* second shutdown.
C21_Witness ==
  /\ Len(whist) = 5
  /\ whist[1].sense = 1 /\ whist[1].pulsed
  /\ whist[2].sense = 0 /\ whist[2].shutdown /\ whist[2].pulsed
  /\ whist[3].sense < 0 /\ ~whist[3].pulsed
  /\ whist[4].sense = 1 /\ whist[4].pulsed
  /\ whist[5].sense = 0 /\ whist[5].pulsed /\ whist[5].shutdown

\* C24: export() and direction() return a negative value whenever their
\* write() is short or fails, whatever close() returns, and setup() then
\* does not go on as after a success: after export() it returns the error,
\* after direction() it retries or, with the retries used up, returns it.
C24_ShortWriteIsReported ==
  gpioWrite = "short" =>
    /\ setupRv < 0
    /\ \/ wpc = "exit"
       \/ wpc \in {"setup22", "setup27"} /\ spc = "direction" /\ attempts > 0

(***************************************************************************)
(* Claims about pico-i2cd                                                  *)
(***************************************************************************)
\* the polls of the watched key recorded in khist
Polls == 1..Len(khist)

\* the device accepted every event written for the watched key in polls p..q
Accepting(p, q) ==
  \A j \in p..q : khist[j].wrote # "none" => khist[j].accepted

\* the poll cycle is over: all keys were scanned and the marker was handled
CycleDone == ipc = "sleep"

\* the positions of sink that hold a synchronisation marker
Markers == { j \in 1..Len(sink) : sink[j].type = "EV_SYN" }

\* the positions of sink that hold a key event the device accepted
AcceptedEvents == { j \in 1..Len(sink) : sink[j].type = "EV_KEY" /\ sink[j].ok }

\* C1: while the device accepts every event, a key that is idle at poll p,
\* reads as pressed in polls p..q-1 and reads 0 in poll q yields a press at
\* poll p, a release at poll q, both accepted, and no event in between.
C1_OnePressOneRelease ==
  \A p \in Polls : \A q \in (p + 1)..Len(khist) :
    ( /\ khist[p].was = 0
      /\ \A j \in p..(q - 1) : khist[j].scan > 0
      /\ khist[q].scan = 0
      /\ Accepting(p, q) )
    =>
    ( /\ khist[p].wrote = "press" /\ khist[p].accepted
      /\ khist[q].wrote = "release" /\ khist[q].accepted
      /\ khist[q].after = 0
      /\ \A j \in (p + 1)..(q - 1) : khist[j].wrote = "none" )

\* C1 witness: the watched key reads 1, 1, 1, 0 from idle: one press at the
\* first poll, nothing at the next two, one release at the fourth.
C1_Witness ==
  /\ Len(khist) = 4
  /\ khist[1].was = 0
  /\ \A j \in 1..3 : khist[j].scan = 1
  /\ khist[4].scan = 0
  /\ khist[1].wrote = "press" /\ khist[1].accepted
  /\ khist[2].wrote = "none" /\ khist[3].wrote = "none"
  /\ khist[4].wrote = "release" /\ khist[4].accepted
  /\ release[watched] = 0

\* C7: a pass whose press or release event the device rejects leaves the
\* release flags and synchronise as they were and calls no resetKey; and if
\* the key's previous poll was rejected and the register reads the same
\* value again, the same event is written again.
C7_RejectedWriteChangesNothing ==
  [][Len(khist') > Len(khist) =>
       LET e == khist'[Len(khist')] IN
       /\ (e.wrote # "none" /\ ~e.accepted) =>
            /\ release' = release
            /\ synchronise' = synchronise
            /\ ~e.reset
            /\ e.after = e.was /\ ~e.sync
       /\ (Len(khist) > 0 /\ khist[Len(khist)].wrote # "none"
              /\ ~khist[Len(khist)].accepted
              /\ e.scan = khist[Len(khist)].scan) =>
            e.wrote = khist[Len(khist)].wrote]_vars

\* C7 witness: a press was rejected and written again at the next poll, then
\* a release was rejected and written again at the next poll.
C7_Witness ==
  /\ Len(khist) = 4
  /\ khist[1].wrote = "press" /\ ~khist[1].accepted /\ ~khist[1].reset
  /\ khist[2].wrote = "press" /\ khist[2].accepted
  /\ khist[3].wrote = "release" /\ ~khist[3].accepted
  /\ khist[4].wrote = "release" /\ khist[4].accepted

\* C8: no synchronisation marker is written while the keys are scanned; when
\* the cycle is over, sink holds exactly one marker, as its last entry, if
\* the device accepted a key event in the cycle, and no marker otherwise.
C8_OneMarkerPerCycle ==
  /\ ipc \in {"scan", "sync"} => Markers = {}
  /\ CycleDone =>
       IF AcceptedEvents # {} THEN Markers = {Len(sink)} ELSE Markers = {}

\* C8 witness: all three keys had an event accepted in one cycle and sink
\* ends with the single marker that follows them.
C8_Witness ==
  /\ CycleDone
  /\ Len(sink) = 4
  /\ AcceptedEvents = {1, 2, 3}
  /\ Markers = {4}

\* C10: the keys are scanned in order, each once per cycle, whatever the
\* reads return; a pass whose status read fails writes no event and leaves
\* the key's release flag as it was; and the flag of every key scanned is
\* the one its own pass left.
C10_FailedReadSkipsOnlyThatKey ==
  /\ ipc = "scan" => Len(steps) = i
  /\ ipc \in {"sync", "sleep"} => Len(steps) = 3
  /\ \A j \in 1..Len(steps) :
       /\ steps[j].key = j - 1
       /\ release[j - 1] = steps[j].after
       /\ steps[j].scan < 0 =>
            (steps[j].wrote = "none" /\ steps[j].after = steps[j].was)

\* C10 witness: in one cycle the read of key 0 failed while it was armed,
\* the read of key 1 failed while it was idle, and key 2 was then scanned
\* and had its press accepted.
C10_Witness ==
  /\ Len(steps) = 3
  /\ steps[1].scan < 0 /\ steps[1].was = 1 /\ release[0] = 1
  /\ steps[2].scan < 0 /\ steps[2].was = 0 /\ release[1] = 0
  /\ steps[3].wrote = "press" /\ steps[3].accepted /\ release[2] = 1

\* the entries of bus
BusEntries == { bus[j] : j \in 1..Len(bus) }

\* C12: when the register read under a typed accessor fails, the accessor
\* returns a negative value: the voltages, the version, the mode and the
\* temperatures of the status dump, and the key status of a scan pass.
C12_FailedReadGivesNegative ==
  /\ (line # NoLine /\ Len(bus) = 1 /\ bus[1].ret < 0) => line.value < 0
  /\ (ipc \in {"scan", "sync"} /\ Len(steps) > 0 /\ Len(bus) > 0
        /\ bus[1].ret < 0) => steps[Len(steps)].scan < 0

\* C13: a register call for the address i2c.addr holds issues no ioctl,
\* selects successfully and leaves i2c.addr alone; a call for another
\* address issues the ioctl, and i2c.addr becomes that address if the ioctl
\* succeeds and stays as it was, with the select failing, if it does not.
\* The calls of a step start from the i2c.addr the previous one left.
C13_SelectCache ==
  /\ \A b \in BusEntries :
       IF b.cur = b.dev
       THEN ~b.ioctl /\ b.sel = 0 /\ b.addr = b.cur
       ELSE /\ b.ioctl
            /\ IF b.ioctlRv >= 0
               THEN b.sel = 0 /\ b.addr = b.dev
               ELSE b.sel < 0 /\ b.addr = b.cur
  /\ \A j \in 1..(Len(bus) - 1) : bus[j + 1].cur = bus[j].addr
  /\ Len(bus) > 0 => i2cAddr = bus[Len(bus)].addr

\* C13 witness: getMode asked for 0x69 while i2c.addr was 0x6b, the ioctl
\* failed and i2c.addr is still 0x6b.
C13_Witness ==
  /\ Len(bus) = 1
  /\ bus[1].cur = 107 /\ bus[1].dev = 105
  /\ bus[1].ioctl /\ bus[1].ioctlRv < 0 /\ bus[1].sel < 0
  /\ i2cAddr = 107

\* C14: a register call issues its SMBus transaction exactly when its
\* address select succeeded; it returns an error when the select fails and
\* when the transaction returns one, and the transaction's value otherwise;
\* and every transaction issued goes to the address the caller asked for.
C14_SelectBeforeTransaction ==
  /\ \A b \in BusEntries :
       /\ b.xfer <=> b.sel = 0
       /\ b.sel < 0 => b.ret < 0
       /\ (b.xfer /\ b.res < 0) => b.ret < 0
       /\ (b.xfer /\ b.res >= 0) => b.ret = b.res
       /\ b.xfer => b.at = b.dev
  /\ Len(bus) > 0 => slave = bus[Len(bus)].at

\* C14 witness: in one pass getKey switched the adaptor from 0x6b to 0x69
\* and read the key as pressed, and resetKey then wrote to 0x69 without an
\* ioctl and failed.
C14_Witness ==
  /\ Len(bus) = 2
  /\ bus[1].cur = 107 /\ bus[1].ioctl /\ bus[1].xfer /\ bus[1].ret > 0
  /\ ~bus[2].ioctl /\ bus[2].xfer /\ bus[2].at = 105 /\ bus[2].ret < 0

\* the key events of key k written in the current poll cycle
EventsOf(k) ==
  { j \in 1..Len(sink) : sink[j].type = "EV_KEY" /\ sink[j].code = code[k + 1] }

\* C22: whatever the reads, the resets and the uinput device return, the
\* events accepted for a key alternate press, release, press, ..., starting
\* with a press: the accepted presses minus the accepted releases are 0 or
\* 1, they equal the key's release flag, the last accepted event is a press
\* exactly when they are 1; and a poll cycle writes at most one event per key.
C22_EventsAlternate ==
  \A k \in 0..2 :
    /\ balance[k] \in {0, 1}
    /\ balance[k] = release[k]
    /\ last[k] = "press" <=> balance[k] = 1
    /\ last[k] = "none" => balance[k] = 0
    /\ Cardinality(EventsOf(k)) <= 1

\* C22 witness: in one poll cycle the release of key 0, pressed in an
\* earlier cycle, was accepted, the press of key 1 was rejected and the
\* press of key 2 was accepted.
C22_Witness ==
  /\ CycleDone
  /\ Len(sink) = 4
  /\ sink[1] = KeyEvent(0, "release", TRUE) /\ last[0] = "release"
  /\ sink[2] = KeyEvent(1, "press", FALSE) /\ last[1] = "none"
  /\ sink[3] = KeyEvent(2, "press", TRUE) /\ last[2] = "press"
  /\ balance = [k \in 0..2 |-> IF k = 2 THEN 1 ELSE 0]

\* the latest step was the pass of the for loop for the watched key
JustScanned == ipc \in {"scan", "sync"} /\ i = watched + 1 /\ Len(bus) > 0

ReadSucceeded == JustScanned /\ steps[i].scan >= 0

ResetAttempted == JustScanned /\ steps[i].reset

ResetSucceeded == ResetAttempted /\ Len(bus) = 2 /\ bus[2].ret >= 0

SinkAttempted == JustScanned /\ steps[i].wrote # "none"

SinkSucceeded == SinkAttempted /\ steps[i].accepted

\* the fairness the claim assumes, for the watched key: its status reads
\* succeed again and again, and so do its resetKey writes and the writes of
\* its events to the uinput device if they are attempted again and again
IoFair ==
  /\ []<>ReadSucceeded
  /\ []<>ResetAttempted => []<>ResetSucceeded
  /\ []<>SinkAttempted => []<>SinkSucceeded

\* C23, as stated: with latched key registers and under that fairness,
\* every accepted press of the watched key is eventually followed by an
\* accepted release of that key.
C23_PressLeadsToRelease ==
  IoFair => ((last[watched] = "press") ~> (last[watched] = "release"))

\* C23, amended: the same, for a key that from some time on is not pressed
\* any more.
C23_PressLeadsToReleaseOncePressingEnds ==
  (IoFair /\ <>[][~PressWatched]_vars)
    => ((last[watched] = "press") ~> (last[watched] = "release"))

\* C23 witness: against the latched registers, the watched key is armed, its
\* register still reads as pressed and the resetKey of the latest pass, the
\* one for that key, failed.
C23_Witness ==
  /\ JustScanned
  /\ last[watched] = "press" /\ release[watched] = 1
  /\ keyreg[watched] = 1
  /\ ResetAttempted /\ ~ResetSucceeded
  /\ steps[i].wrote = "none"

(***************************************************************************)
(* Claims about both daemons, each running alone                           *)
(***************************************************************************)
\* the positions of pico-i2cd's main inside its input loop
InputLoop == {"scan", "sync", "sleep"}

C18_VoltageDecode ==
  volts # -1 =>
    /\ volts = 100 * hi + lo
    /\ (hi = 14 /\ lo = 50) => volts = 1450

\* C18 witness: the word 0x0EFA, whose low byte is 250, was decoded to
\* 14 + 250 / 100 = 16.50.
C18_Witness ==
  /\ hi = 14 /\ lo = 250
  /\ volts = 1650

====
